---- MODULE Spec2Model ----
(***************************************************************************)
(* Penguins dashboard (src/app/app.py): a base table df, per-session       *)
(* filter inputs (mass slider, species checkbox group), the reactive calc  *)
(* filtered_df, and five rendered outputs that read it.                    *)
(*                                                                         *)
(* Numbers: body mass in grams; bill and flipper measurements in tenths of *)
(* a millimetre (392 is 39.2 mm), so that the ".1f" formatting of a mean   *)
(* is a rounding to an integer.  A missing value of a numeric column is    *)
(* NaN; every ordering comparison with NaN is false (IEEE 754, which is    *)
(* what pandas' "<" computes).                                             *)
(***************************************************************************)
EXTENDS Integers, Sequences, FiniteSets, TLC

VARIABLES
    df,          \* the module-level table loaded at start
    input,       \* per session: input.mass() and input.species()
    cache,       \* per calc: whether filtered_df is valid, and its memoized value
    executions,  \* per calc: how many times the body of filtered_df has run
    events,      \* per session: how many input changes it has received
    pending,     \* per session: the outputs invalidated and not yet re-rendered
    out          \* per session: what each output shows

vars == <<df, input, cache, executions, events, pending, out>>

-----------------------------------------------------------------------------
(* Bounds of the model *)

\* longest base table drawn by InitFilter
MaxRows == 2
\* input-change events delivered in one behaviour (all sessions together)
MaxEvents == 3

-----------------------------------------------------------------------------
(* Program constants *)

SliderMin == 2000
SliderMax == 6000
SliderDefault == 6000

Species == {"Adelie", "Gentoo", "Chinstrap"}
SpeciesDefault == {"Adelie", "Gentoo", "Chinstrap"}

\* a missing numeric value (float NaN) of the loaded table
NaN == -1

\* the browser sessions connected to the app
Sessions == {1, 2}

\* the outputs in the order the file defines them
Sinks == <<"count", "bill_length", "bill_depth", "length_depth", "summary_statistics">>

AllSinks == {Sinks[i] : i \in 1..Len(Sinks)}

cols == {"species", "island", "bill_length_mm", "bill_depth_mm", "body_mass_g"}

\* positions of the slider the model delivers: the two ends of its range and
\* the values in between at which a sampled penguin's mass lies
SliderValues == {v \in {2000, 2700, 3750, 6000} : SliderMin <= v /\ v <= SliderMax}

-----------------------------------------------------------------------------
(* The dataset: palmerpenguins.load_penguins() *)

Penguin(sp, isl, bl, bd, fl, bm, sx, yr) ==
    [species |-> sp, island |-> isl, bill_length_mm |-> bl, bill_depth_mm |-> bd,
     flipper_length_mm |-> fl, body_mass_g |-> bm, sex |-> sx, year |-> yr]

\* observations sampled from the dataset: an ordinary one, one with every
\* measurement missing, the lightest, the heaviest, and one of exactly 6000 g.
\* The bill measurements sampled are multiples of 0.4 mm, so that no mean of
\* up to seven of them lies halfway between two tenths.
PenguinSamples ==
    << Penguin("Adelie", "Torgersen", 392, 188, 1810, 3750, "male", 2007),
       Penguin("Adelie", "Torgersen", NaN, NaN, NaN, NaN, "NA", 2007),
       Penguin("Chinstrap", "Dream", 468, 168, 1920, 2700, "female", 2008),
       Penguin("Gentoo", "Biscoe", 492, 152, 2210, 6300, "male", 2007),
       Penguin("Gentoo", "Biscoe", 512, 164, 2200, 6000, "male", 2008) >>

\* a DataFrame is a sequence of rows; each row carries its index label
WithIndex(i, p) ==
    [index |-> i - 1, species |-> p.species, island |-> p.island,
     bill_length_mm |-> p.bill_length_mm, bill_depth_mm |-> p.bill_depth_mm,
     flipper_length_mm |-> p.flipper_length_mm, body_mass_g |-> p.body_mass_g,
     sex |-> p.sex, year |-> p.year]

DataFrame(choice) == [i \in DOMAIN choice |-> WithIndex(i, PenguinSamples[choice[i]])]

\* the table of the five samples, in order
load_penguins == DataFrame([i \in 1..Len(PenguinSamples) |-> i])

\* every table of 1..MaxRows rows drawn from the samples
Datasets ==
    {DataFrame(c) : c \in UNION {[1..n -> 1..Len(PenguinSamples)] : n \in 1..MaxRows}}

-----------------------------------------------------------------------------
(* pandas *)

\* a <= b in its place
Lt_Le(a, b) == a # NaN /\ b # NaN /\ a <= b

\* the operands exchanged
Lt_Swapped(a, b) == a # NaN /\ b # NaN /\ b < a

\* a comparison that takes a missing value for a small one
Lt_NaNSmall(a, b) == b # NaN /\ (a = NaN \/ a < b)

\* a < b on floats
Lt(a, b) == a # NaN /\ b # NaN /\ a < b

\* the mask negated
isin_Negated(v, values) == v \notin values

\* Series.isin(values)
isin(v, values) == v \in values

\* Series.mean(): the mean of the values that are not missing, as the exact
\* fraction num/den; NaN when there is none
RECURSIVE Sum(_)
Sum(s) == IF s = <<>> THEN 0 ELSE Head(s) + Sum(Tail(s))

Column(t, c) == [i \in 1..Len(t) |-> t[i][c]]

mean(s) ==
    LET present == SelectSeq(s, LAMBDA v : v # NaN)
    IN  IF Len(present) = 0 THEN [nan |-> TRUE, num |-> 0, den |-> 1]
        ELSE [nan |-> FALSE, num |-> Sum(present), den |-> Len(present)]

\* a formatting that raises on NaN (as int(x) or round(x) does)
Format1f_Raises(x) ==
    IF x.nan THEN [text |-> "error", tenths |-> 0, unit |-> ""]
    ELSE [text |-> "number", tenths |-> x.num \div x.den, unit |-> " mm"]

\* f"{x:.1f} mm": x rounded to one decimal, that is to the nearest integer
\* number of tenths (the sampled values give no mean halfway between two),
\* and "nan" for NaN
Format1f(x) ==
    IF x.nan THEN [text |-> "nan", tenths |-> 0, unit |-> " mm"]
    ELSE LET q == x.num \div x.den
             r == x.num % x.den
         IN  [text |-> "number", tenths |-> IF 2 * r < x.den THEN q ELSE q + 1,
              unit |-> " mm"]

-----------------------------------------------------------------------------
(* The reactive calc and the outputs *)

\* filtered_df(): the rows of base whose species is selected, then those of
\* them whose body mass is below the slider's value
filtered_df(base, inp) ==
    LET filt_df == SelectSeq(base, LAMBDA r : isin(r.species, inp.species))
    IN  SelectSeq(filt_df, LAMBDA r : Lt(r.body_mass_g, inp.mass))

\* the filter applied in place
df_after_filtered_df_InPlace(base, inp) ==
    SelectSeq(base, LAMBDA r : isin(r.species, inp.species) /\ Lt(r.body_mass_g, inp.mass))

\* what running filtered_df leaves in the module-level df: the indexing
\* builds new frames and df is never assigned
df_after_filtered_df(base, inp) == base

\* one calc shared by every session
CalcOf_Shared(s) == 1

\* the calc object a session's outputs read: the file is run once per
\* session, so each session has a calc of its own
CalcOf(s) == s

\* a plain function: every read executes it
ReadCalc_NoMemo(c, base, inp) ==
    [calc |-> [valid |-> TRUE, value |-> filtered_df(base, inp)],
     executed |-> 1,
     base |-> df_after_filtered_df(base, inp)]

\* @reactive.calc: a read returns the memoized value while the calc is valid
\* and executes the function otherwise
ReadCalc(c, base, inp) ==
    IF c.valid THEN [calc |-> c, executed |-> 0, base |-> base]
    ELSE [calc |-> [valid |-> TRUE, value |-> filtered_df(base, inp)],
          executed |-> 1,
          base |-> df_after_filtered_df(base, inp)]

\* the count not invalidated by a change of the slider
Invalidated_CountStale(name) == IF name = "mass" THEN AllSinks \ {"count"} ELSE AllSinks

\* the outputs that are invalidated with the calc when the named input changes
\* (every output reads filtered_df, which reads both inputs)
Invalidated(name) == AllSinks

count(t) == Len(t)

bill_length(t) == Format1f(mean(Column(t, "bill_length_mm")))

bill_depth(t) == Format1f(mean(Column(t, "bill_depth_mm")))

\* the scatter plot: one point per row that has both coordinates
length_depth(t) ==
    LET drawn == SelectSeq(t, LAMBDA r : r.bill_length_mm # NaN /\ r.bill_depth_mm # NaN)
    IN  [points |-> [i \in 1..Len(drawn) |->
                        [x |-> drawn[i].bill_length_mm, y |-> drawn[i].bill_depth_mm,
                         hue |-> drawn[i].species]],
         xlabel |-> "Bill Length (mm)", ylabel |-> "Bill Depth (mm)",
         legend |-> "Species"]

\* the data grid: the rows of the view with the columns of cols
summary_statistics(t) ==
    [rows |-> [i \in 1..Len(t) |-> [c \in cols \cup {"index"} |-> t[i][c]]],
     filters |-> TRUE]

RenderSink(k, t) ==
    CASE k = "count" -> count(t)
      [] k = "bill_length" -> bill_length(t)
      [] k = "bill_depth" -> bill_depth(t)
      [] k = "length_depth" -> length_depth(t)
      [] k = "summary_statistics" -> summary_statistics(t)

\* what an output shows before its first rendering
Blank(k) ==
    CASE k = "count" -> 0
      [] k = "bill_length" -> [text |-> "", tenths |-> 0, unit |-> ""]
      [] k = "bill_depth" -> [text |-> "", tenths |-> 0, unit |-> ""]
      [] k = "length_depth" -> [points |-> <<>>, xlabel |-> "", ylabel |-> "", legend |-> ""]
      [] k = "summary_statistics" -> [rows |-> <<>>, filters |-> FALSE]

-----------------------------------------------------------------------------
(* State *)

RECURSIVE Total(_, _)
Total(f, S) == IF S = {} THEN 0 ELSE LET x == CHOOSE y \in S : TRUE
                                    IN  f[x] + Total(f, S \ {x})

InputDefault == [mass |-> SliderDefault, species |-> SpeciesDefault]

SessionInit ==
    /\ input = [s \in Sessions |-> InputDefault]
    /\ cache = [s \in Sessions |-> [valid |-> FALSE, value |-> <<>>]]
    /\ executions = [s \in Sessions |-> 0]
    /\ events = [s \in Sessions |-> 0]
    /\ pending = [s \in Sessions |-> AllSinks]
    /\ out = [s \in Sessions |-> [k \in AllSinks |-> Blank(k)]]

Init ==
    /\ df = load_penguins
    /\ SessionInit

\* a message of session s carrying a new value of the input called name (the
\* browser sends an input only when its value has changed); a session handles
\* its next message after the flush of the previous one is complete
SetInput(s, name, new) ==
    /\ pending[s] = {}
    /\ Total(events, Sessions) < MaxEvents
    /\ new # input[s]
    /\ input' = [input EXCEPT ![s] = new]
    /\ events' = [events EXCEPT ![s] = @ + 1]
    /\ cache' = [cache EXCEPT ![CalcOf(s)].valid = FALSE]
    /\ pending' = [t \in Sessions |->
                      IF CalcOf(t) = CalcOf(s) THEN pending[t] \cup Invalidated(name)
                      ELSE pending[t]]
    /\ UNCHANGED <<df, executions, out>>

InputMass(s, v) == SetInput(s, "mass", [input[s] EXCEPT !.mass = v])

InputSpecies(s, sel) == SetInput(s, "species", [input[s] EXCEPT !.species = sel])

\* the invalidated output the flush of a session runs next: the outputs are
\* queued in the order they were created, which is the order of the file
NextPending(p) == Sinks[CHOOSE i \in 1..Len(Sinks) :
                          Sinks[i] \in p /\ \A j \in 1..(i - 1) : Sinks[j] \notin p]

\* the flush runs the invalidated output k of session s
Render(s, k) ==
    /\ pending[s] # {}
    /\ k = NextPending(pending[s])
    /\ LET r == ReadCalc(cache[CalcOf(s)], df, input[s])
       IN  /\ cache' = [cache EXCEPT ![CalcOf(s)] = r.calc]
           /\ executions' = [executions EXCEPT ![CalcOf(s)] = @ + r.executed]
           /\ df' = r.base
           /\ out' = [out EXCEPT ![s][k] = RenderSink(k, r.calc.value)]
    /\ pending' = [pending EXCEPT ![s] = @ \ {k}]
    /\ UNCHANGED <<input, events>>

Next ==
    \/ \E s \in Sessions, v \in SliderValues : InputMass(s, v)
    \/ \E s \in Sessions, sel \in SUBSET Species : InputSpecies(s, sel)
    \/ \E s \in Sessions, k \in AllSinks : Render(s, k)

Spec == Init /\ [][Next]_vars

\* the filter alone, over every small table: one session, any table
InitFilter ==
    /\ df \in Datasets
    /\ SessionInit

NextFilter ==
    \/ \E v \in SliderValues : InputMass(1, v)
    \/ \E sel \in SUBSET Species : InputSpecies(1, sel)
    \/ \E k \in AllSinks : Render(1, k)

SpecFilter == InitFilter /\ [][NextFilter]_vars

-----------------------------------------------------------------------------
(* Properties *)

\* the view a session's calc holds
View(s) == cache[CalcOf(s)].value

HasView(s) == cache[CalcOf(s)].valid

\* the masses observed in the base table
Observed == {df[j].body_mass_g : j \in 1..Len(df)} \ {NaN}

\* species in selected_species AND mass < max_mass
Satisfies(r, inp) ==
    /\ r.species \in inp.species
    /\ r.body_mass_g \in Observed
    /\ r.body_mass_g < inp.mass

\* C1: whatever filter state the input events have led to, the table
\* filtered_df holds consists of exactly the rows of the base table whose
\* species is selected and whose body mass is strictly below max_mass: every
\* row of it is such a base row, and every such base row is in it.
C1_FilterSoundComplete ==
    \A s \in Sessions : HasView(s) =>
        /\ \A i \in 1..Len(View(s)) :
              /\ \E j \in 1..Len(df) : df[j] = View(s)[i]
              /\ Satisfies(View(s)[i], input[s])
        /\ \A j \in 1..Len(df) :
              Satisfies(df[j], input[s]) => \E i \in 1..Len(View(s)) : View(s)[i] = df[j]

C1_Witness ==
    /\ events[1] >= 1
    /\ HasView(1)
    /\ input[1].mass < SliderMax
    /\ input[1].species # Species
    /\ Len(View(1)) >= 1
    /\ Len(View(1)) < Len(df)

\* C2: a read of the derived view under an unchanged filter state does not
\* execute filtered_df again and sees the same table: the number of executions
\* is the number of filter states the session has been through whose view has
\* been read (one per input change, plus the initial one), however many
\* outputs have read it, and every output rendered since the last change
\* shows the one memoized table.
C2_OneExecutionPerFilterState ==
    \A s \in Sessions :
        /\ executions[CalcOf(s)] = events[s] + (IF HasView(s) THEN 1 ELSE 0)
        /\ HasView(s) => \A k \in AllSinks \ pending[s] : out[s][k] = RenderSink(k, View(s))

C2_Witness ==
    \E s \in Sessions :
        /\ pending[s] = {}
        /\ events[s] = 2
        /\ input[s] = InputDefault
        /\ executions[CalcOf(s)] = 3

\* C3: the row count of the derived view is monotone: a lower max_mass with
\* the same species, or fewer species with the same max_mass, never gives
\* more rows than the view the session holds.
C3_Monotone ==
    \A s \in Sessions : HasView(s) =>
        /\ \A m \in SliderValues :
              m <= input[s].mass =>
                  Len(filtered_df(df, [input[s] EXCEPT !.mass = m])) <= Len(View(s))
        /\ \A sel \in SUBSET input[s].species :
              Len(filtered_df(df, [input[s] EXCEPT !.species = sel])) <= Len(View(s))

C3_Witness ==
    /\ HasView(1)
    /\ events[1] >= 1
    /\ \E m \in SliderValues :
          /\ m < input[1].mass
          /\ Len(filtered_df(df, [input[1] EXCEPT !.mass = m])) < Len(View(1))
    /\ \E sel \in SUBSET input[1].species :
          /\ sel # {}
          /\ Len(filtered_df(df, [input[1] EXCEPT !.species = sel])) < Len(View(1))

\* C4 as stated: in the default filter state the derived view is the base
\* table without exactly the rows whose mass is >= 6000.
C4_DefaultDropsOnlyHeavy ==
    \A s \in Sessions : (HasView(s) /\ input[s] = InputDefault) =>
        View(s) = SelectSeq(df, LAMBDA r : ~(r.body_mass_g \in Observed
                                             /\ r.body_mass_g >= SliderDefault))

\* C4, amended: in the default filter state (max_mass = 6000, all three
\* species) the derived view is the base table without exactly the rows whose
\* mass is >= 6000 or missing.
C4_DefaultDropsHeavyAndMissing ==
    \A s \in Sessions : (HasView(s) /\ input[s] = InputDefault) =>
        View(s) = SelectSeq(df, LAMBDA r : ~(r.body_mass_g \notin Observed
                                             \/ r.body_mass_g >= SliderDefault))

C4_Witness ==
    \E s \in Sessions :
        /\ HasView(s)
        /\ events[s] = 0
        /\ input[s] = InputDefault
        /\ \E j \in 1..Len(df) : df[j].body_mass_g = NaN
        /\ \E j \in 1..Len(df) : df[j].body_mass_g \in Observed /\ df[j].body_mass_g >= SliderDefault
        /\ Len(View(s)) >= 1

C6_EmptyAtBoundaries ==
    \A s \in Sessions : HasView(s) =>
        /\ input[s].species = {} => Len(View(s)) = 0
        /\ (\A w \in Observed : input[s].mass <= w) => Len(View(s)) = 0

C6_Witness ==
    /\ HasView(1) /\ HasView(2)
    /\ input[1].species = {}
    /\ \E w \in Observed : w < input[1].mass
    /\ input[2].species = Species
    /\ \E w \in Observed : w = input[2].mass
    /\ \A w \in Observed : input[2].mass <= w
    /\ Len(View(1)) = 0 /\ Len(View(2)) = 0

GridColumns == {"species", "island", "bill_length_mm", "bill_depth_mm", "body_mass_g"}

\* C7: once the outputs invalidated by an input change have all been rendered,
\* every output shows the derived view of the current filter state: the count
\* is its number of rows, the grid holds its rows, in order, with the columns
\* species, island, bill_length_mm, bill_depth_mm and body_mass_g, and the
\* means and the plot are those of that view.
C7_SinksCurrent ==
    \A s \in Sessions : pending[s] = {} =>
        LET view == filtered_df(df, input[s])
            grid == out[s]["summary_statistics"].rows
        IN  /\ out[s]["count"] = Len(view)
            /\ Len(grid) = Len(view)
            /\ \A i \in 1..Len(view) :
                  /\ DOMAIN grid[i] \ {"index"} = GridColumns
                  /\ grid[i].index = view[i].index
                  /\ \A c \in GridColumns : grid[i][c] = view[i][c]
            /\ out[s]["bill_length"] = bill_length(view)
            /\ out[s]["bill_depth"] = bill_depth(view)
            /\ out[s]["length_depth"] = length_depth(view)

C7_Witness ==
    \E s \in Sessions :
        /\ pending[s] = {}
        /\ events[s] = 2
        /\ input[s].mass # SliderDefault
        /\ input[s].species # SpeciesDefault
        /\ out[s]["count"] = 1
        /\ Len(out[s]["summary_statistics"].rows) = 1

\* what belongs to session s
Own(s) == <<input[s], cache[s], executions[s], pending[s], out[s], events[s]>>

\* C8: an input change in one session changes nothing of another session
\* (its filter state, its memoized view, its outputs), and never the base
\* table.
C8_SessionsIsolated ==
    [][\A s \in Sessions :
          (\E t \in Sessions \ {s} : events'[t] # events[t]) =>
              (Own(s)' = Own(s) /\ df' = df)]_vars

C8_Witness ==
    /\ pending[1] = {} /\ pending[2] = {}
    /\ events[1] >= 1 /\ events[2] >= 1
    /\ input[1] # input[2]
    /\ out[1]["count"] # out[2]["count"]
    /\ View(1) # View(2)

\* C9: data flows one way: no step changes the base table, the filter state
\* of a session changes only in an input event of that session, and a
\* rendering (with the execution of filtered_df it may cause) leaves every
\* filter state as it was.
C9_OneDirectional ==
    [][/\ df' = df
       /\ \A s \in Sessions : input'[s] # input[s] => events'[s] = events[s] + 1
       /\ (\E s \in Sessions : pending'[s] # pending[s] /\ events' = events)
             => input' = input]_vars

C9_Witness ==
    \E s \in Sessions :
        /\ pending[s] = {}
        /\ executions[CalcOf(s)] >= 2
        /\ Len(View(s)) >= 1
        /\ Len(View(s)) < Len(df)
        /\ df = load_penguins

\* C10: no output is ever in an error state, and once the outputs have been
\* rendered on an empty derived view the count shows 0, both means show
\* "nan mm", the plot has no points and the grid no rows.
C10_EmptyViewRenders ==
    \A s \in Sessions :
        /\ out[s]["bill_length"].text # "error"
        /\ out[s]["bill_depth"].text # "error"
        /\ (pending[s] = {} /\ Len(filtered_df(df, input[s])) = 0) =>
              /\ out[s]["count"] = 0
              /\ out[s]["bill_length"].text = "nan" /\ out[s]["bill_length"].unit = " mm"
              /\ out[s]["bill_depth"].text = "nan" /\ out[s]["bill_depth"].unit = " mm"
              /\ out[s]["length_depth"].points = <<>>
              /\ out[s]["summary_statistics"].rows = <<>>

C10_Witness ==
    \E s \in Sessions :
        /\ pending[s] = {}
        /\ events[s] >= 1
        /\ input[s].species # {}
        /\ Len(View(s)) = 0
        /\ out[s]["count"] = 0
        /\ out[s]["bill_length"].text = "nan"

====
